---- MODULE Spec2Model ----
(***************************************************************************)
(* A model of the document-processing core of src/bert-ocr.py:             *)
(*   chunk_text, summarize_large_text and extract_legal_entities.          *)
(*                                                                         *)
(* A Python string that only matters as a sequence of whitespace-separated *)
(* words (the document text, a chunk, a summary) is a sequence of tokens:  *)
(* SP is one space character, a positive number is one word.  text.split() *)
(* and " ".join(...) are modelled on those tokens.  An entity value, whose *)
(* characters matter, is a sequence of one-character strings.              *)
(*                                                                         *)
(* One behaviour is one call of one of the three functions.  The `while`   *)
(* loop of chunk_text, the `for` loops over the chunks (one call of the    *)
(* external summarizer / NER pipeline per step) and the recursive call of  *)
(* summarize_large_text are the steps.                                     *)
(***************************************************************************)
EXTENDS Integers, Sequences, FiniteSets, TLC

VARIABLES
    call,             \* the function that was called
    pc,               \* the position of control
    text,             \* the `text` argument of the running invocation
    chunk_size,       \* chunk_text: parameter
    overlap,          \* chunk_text: parameter
    words,            \* chunk_text: local
    chunks,           \* chunk_text: local, then the caller's `chunks`
    start,            \* chunk_text: local
    max_chunk_words,  \* summarize_large_text: parameter
    summarizer,       \* the behaviour of the global `summarizer` pipeline
    summaries,        \* summarize_large_text: local
    combined,         \* summarize_large_text: local
    idx,              \* number of chunks the running `for` loop has consumed
    round,            \* number of invocations of summarize_large_text so far
    input,            \* the text the outermost call was given
    outcomes,         \* what the summarizer did on each chunk of this round
    entities,         \* extract_legal_entities: local
    raw,              \* the well-formed spans the NER pipeline has returned
    result            \* the value returned to the caller

vars == <<call, pc, text, chunk_size, overlap, words, chunks, start,
          max_chunk_words, summarizer, summaries, combined, idx, round,
          input, outcomes, entities, raw, result>>

----------------------------------------------------------------------------
(* Bounds of the model *)

MaxWords == 4        \* short documents have 0..MaxWords words
MaxChunkSize == 3    \* chunk_text called directly: chunk_size in 1..MaxChunkSize
MaxIter == 3         \* iterations explored of a `while` loop that cannot end
MaxRounds == 3       \* invocations explored of summarize_large_text
MaxValLen == 2       \* characters in a raw entity value

(* Constants of the program *)

DefaultOverlap == 200         \* chunk_text(..., overlap=200)
DefaultMaxChunkWords == 1000  \* summarize_large_text(text, max_chunk_words=1000)
DefaultNerChunkSize == 500    \* extract_legal_entities(text, chunk_size=500)

----------------------------------------------------------------------------
(* Strings as token sequences *)

SP == 0

Min(a, b) == IF a < b THEN a ELSE b
Max(a, b) == IF a > b THEN a ELSE b

\* str.split(): the words, in order; runs of spaces separate, none is kept
split(s) == SelectSeq(s, LAMBDA t : t # SP)

\* " ".join(ws) for a list of words
JoinWords(ws) ==
    IF Len(ws) = 0 THEN << >>
    ELSE [j \in 1..(2 * Len(ws) - 1) |-> IF j % 2 = 1 THEN ws[(j + 1) \div 2] ELSE SP]

\* " ".join(ss) for a list of strings
RECURSIVE JoinStrs(_)
JoinStrs(ss) ==
    IF Len(ss) = 0 THEN << >>
    ELSE IF Len(ss) = 1 THEN ss[1]
    ELSE ss[1] \o <<SP>> \o JoinStrs(Tail(ss))

\* s[a:b] of Python, for any integers a and b
PySlice(s, a, b) ==
    LET n  == Len(s)
        lo == IF a < 0 THEN Max(a + n, 0) ELSE Min(a, n)
        hi == IF b < 0 THEN Max(b + n, 0) ELSE Min(b, n)
    IN  IF lo < hi THEN SubSeq(s, lo + 1, hi) ELSE << >>

\* A document of n distinct words: single spaces, or leading, double and
\* trailing spaces
Layouts == {"plain", "padded"}

Document(n, layout) ==
    IF layout = "plain" THEN JoinWords([j \in 1..n |-> j])
    ELSE <<SP>> \o [j \in 1..(3 * n) |-> IF j % 3 = 1 THEN (j + 2) \div 3 ELSE SP]

----------------------------------------------------------------------------
(* chunk_text *)

\* line 55: while start < len(words)
WhileCond(s, ws) == s < Len(ws)

\* lines 56-57: " ".join(words[start:end]) with end = start + chunk_size
ChunkAt(ws, s, size) == JoinWords(PySlice(ws, s, s + size))

\* A chunk_text whose windows do not overlap
NextStart_NoOverlap(s, size, ov) == s + size

\* line 58: start += chunk_size - overlap
NextStart(s, size, ov) == s + size - ov

\* The position control returns to when chunk_text ends
ReturnTo(c) ==
    CASE c = "chunk_text" -> "returned"
      [] c = "summarize_large_text" -> "sl_for"
      [] c = "extract_legal_entities" -> "ner_for"

Idle == /\ UNCHANGED <<max_chunk_words, summarizer, summaries, combined, round,
                       input, outcomes, entities, raw>>

\* chunk_text is entered: lines 52-54
chunk_text_enter ==
    /\ pc = "entry"
    /\ call = "chunk_text"
    /\ words' = split(text)
    /\ chunks' = << >>
    /\ start' = 0
    /\ pc' = "while"
    /\ idx' = 0
    /\ UNCHANGED <<call, text, chunk_size, overlap, result>>
    /\ Idle

\* One iteration of the loop: lines 55-58.  A loop that cannot end (the
\* start offset does not advance) is followed for MaxIter iterations.
chunk_text_iterate ==
    /\ pc = "while"
    /\ WhileCond(start, words)
    /\ (chunk_size - overlap <= 0) => Len(chunks) < MaxIter
    /\ chunks' = Append(chunks, ChunkAt(words, start, chunk_size))
    /\ start' = NextStart(start, chunk_size, overlap)
    /\ UNCHANGED <<call, pc, text, chunk_size, overlap, words, idx, result>>
    /\ Idle

\* The loop ends and chunk_text returns chunks: line 59
chunk_text_return ==
    /\ pc = "while"
    /\ ~WhileCond(start, words)
    /\ pc' = ReturnTo(call)
    /\ result' = IF call = "chunk_text" THEN chunks ELSE result
    /\ UNCHANGED <<call, text, chunk_size, overlap, words, chunks, start, idx>>
    /\ Idle

----------------------------------------------------------------------------
(* summarize_large_text *)

\* What one call of the summarizer pipeline does: it raises, or it returns a
\* summary
Raised == [ok |-> FALSE, out |-> << >>]
Returned(s) == [ok |-> TRUE, out |-> s]

\* The first word of a chunk, as a one-word summary
FirstWord(chunk) == PySlice(split(chunk), 0, 1)

\* The behaviours of the summarizer the model follows.  "identity" returns
\* the chunk, "head" its first word, "failing" raises on every call and
\* "flaky" does any of these, or returns a blank summary, call by call.
Summarizers == {"identity", "head", "failing", "flaky"}

SummarizerOutcomes(kind, chunk) ==
    CASE kind = "identity" -> {Returned(chunk)}
      [] kind = "head" -> {Returned(FirstWord(chunk))}
      [] kind = "failing" -> {Raised}
      [] kind = "flaky" -> {Raised, Returned(chunk), Returned(FirstWord(chunk)),
                            Returned(<<SP>>)}

\* A loop in which a call that raises discards the summaries collected so far
AfterSummarizerCall_DropsAll(ss, o) == IF o.ok THEN Append(ss, o.out) ELSE << >>

\* lines 72-76: the summary is appended; a call that raises is skipped
AfterSummarizerCall(ss, o) == IF o.ok THEN Append(ss, o.out) ELSE ss

\* lines 75-76: except: continue
AfterSummarizerRaise == "sl_for"

\* A test that lets one word too many through
NeedsAnotherRound_OffByOne(c, m) == Len(split(c)) > m + 1

\* line 79: len(combined.split()) > max_chunk_words
NeedsAnotherRound(c, m) == Len(split(c)) > m

\* summarize_large_text is entered, by the caller or by line 80, and calls
\* chunk_text(text, chunk_size=max_chunk_words): lines 69-70 and 52-54
summarize_enter ==
    /\ pc = "entry"
    /\ call = "summarize_large_text"
    /\ round' = round + 1
    /\ chunk_size' = max_chunk_words
    /\ overlap' = DefaultOverlap
    /\ words' = split(text)
    /\ chunks' = << >>
    /\ start' = 0
    /\ summaries' = << >>
    /\ outcomes' = << >>
    /\ idx' = 0
    /\ pc' = "while"
    /\ UNCHANGED <<call, text, max_chunk_words, summarizer, combined, input,
                   entities, raw, result>>

\* One iteration of the for loop: lines 71-76
summarize_chunk ==
    /\ pc = "sl_for"
    /\ idx < Len(chunks)
    /\ \E o \in SummarizerOutcomes(summarizer, chunks[idx + 1]) :
          /\ summaries' = AfterSummarizerCall(summaries, o)
          /\ outcomes' = Append(outcomes, o)
          /\ pc' = IF o.ok THEN "sl_for" ELSE AfterSummarizerRaise
    /\ idx' = idx + 1
    /\ UNCHANGED <<call, text, chunk_size, overlap, words, chunks, start,
                   max_chunk_words, summarizer, combined, round, input,
                   entities, raw, result>>

\* The for loop is over: line 77
summarize_join ==
    /\ pc = "sl_for"
    /\ idx = Len(chunks)
    /\ combined' = JoinStrs(summaries)
    /\ pc' = "sl_if"
    /\ UNCHANGED <<call, text, chunk_size, overlap, words, chunks, start,
                   max_chunk_words, summarizer, summaries, idx, round, input,
                   outcomes, entities, raw, result>>

\* lines 79-80: the combined summary is the text of a further invocation,
\* whose result is returned as it is.  MaxRounds invocations are followed.
summarize_recurse ==
    /\ pc = "sl_if"
    /\ NeedsAnotherRound(combined, max_chunk_words)
    /\ round < MaxRounds
    /\ text' = combined
    /\ pc' = "entry"
    /\ UNCHANGED <<call, chunk_size, overlap, words, chunks, start,
                   max_chunk_words, summarizer, summaries, combined, idx,
                   round, input, outcomes, entities, raw, result>>

\* line 81
summarize_return ==
    /\ pc = "sl_if"
    /\ ~NeedsAnotherRound(combined, max_chunk_words)
    /\ result' = combined
    /\ pc' = "returned"
    /\ UNCHANGED <<call, text, chunk_size, overlap, words, chunks, start,
                   max_chunk_words, summarizer, summaries, combined, idx,
                   round, input, outcomes, entities, raw>>

----------------------------------------------------------------------------
(* extract_legal_entities *)

\* Characters of a raw entity value: a letter, the sub-token marker
\* character, a space and a punctuation character
Alphabet == {"A", "#", " ", "."}

RawValues == UNION {[1..n -> Alphabet] : n \in 0..MaxValLen}

Types == {"ORG", "PER"}

\* A span the NER pipeline returns: a dict that has, or lacks, the keys
\* 'entity' and 'word'
Span(t, v) == [has_entity |-> TRUE, has_word |-> TRUE, entity |-> t, word |-> v]
NoEntityKey == [has_entity |-> FALSE, has_word |-> TRUE, entity |-> "ORG", word |-> <<"A">>]
NoWordKey == [has_entity |-> TRUE, has_word |-> FALSE, entity |-> "ORG", word |-> <<"A">>]

Spans == {Span(t, v) : t \in Types, v \in RawValues} \cup {NoEntityKey, NoWordKey}

\* What one call of the NER pipeline does: it raises, or it returns a list
\* of at most n spans
NerRaised == [ok |-> FALSE, spans |-> << >>]
NerOutcomes(n) ==
    {NerRaised} \cup {[ok |-> TRUE, spans |-> ss] : ss \in UNION {[1..k -> Spans] : k \in 0..n}}

\* str.replace('##', ''): occurrences are found left to right and do not
\* overlap
RECURSIVE RemoveMarkers(_)
RemoveMarkers(v) ==
    IF Len(v) < 2 THEN v
    ELSE IF v[1] = "#" /\ v[2] = "#" THEN RemoveMarkers(SubSeq(v, 3, Len(v)))
    ELSE <<v[1]>> \o RemoveMarkers(Tail(v))

\* str.strip(chars)
RECURSIVE LStrip(_, _)
LStrip(v, cs) == IF Len(v) > 0 /\ v[1] \in cs THEN LStrip(Tail(v), cs) ELSE v
RECURSIVE RStrip(_, _)
RStrip(v, cs) ==
    IF Len(v) > 0 /\ v[Len(v)] \in cs THEN RStrip(SubSeq(v, 1, Len(v) - 1), cs) ELSE v
Strip(v, cs) == RStrip(LStrip(v, cs), cs)

\* The characters str.strip() removes, and those of v.strip(" ,.'")
Whitespace == {" ", "\t", "\n", "\r", "\f"}
Junk == {" ", ",", ".", "'"}

\* The empty dict
EmptyDict == [t \in {} |-> {}]

\* lines 97-99: entities[ent_type].add(ent_val)
AddValue(e, t, v) ==
    [x \in DOMAIN e \cup {t} |->
        IF x = t THEN (IF t \in DOMAIN e THEN e[t] ELSE {}) \cup {v} ELSE e[x]]

\* line 96: r['word'].replace('##', '')
EntVal(r) == RemoveMarkers(r.word)

\* lines 94-99 on a list of spans: the dict after the loop, and whether the
\* loop ended without a KeyError (line 95 reads r['entity'], line 96 r['word'])
RECURSIVE AddSpans(_, _)
AddSpans(e, ss) ==
    IF Len(ss) = 0 THEN [ok |-> TRUE, entities |-> e]
    ELSE IF ~ss[1].has_entity \/ ~ss[1].has_word THEN [ok |-> FALSE, entities |-> e]
    ELSE AddSpans(AddValue(e, ss[1].entity, EntVal(ss[1])), Tail(ss))

\* A clean-up that drops the blank values and strips nothing
CleanSet_NoStrip(vs) == {w \in vs : Strip(w, Whitespace) # << >>}

\* line 102: set([v.strip(" ,.'") for v in entities[k] if v.strip()])
CleanSet(vs) == {Strip(v, Junk) : v \in {w \in vs : Strip(w, Whitespace) # << >>}}

\* lines 101-102
Clean(e) == [t \in DOMAIN e |-> CleanSet(e[t])]

\* line 93: nothing catches what ner_pipeline(chunk) raises; lines 95-96:
\* nothing catches the KeyError of a span without a key
AfterNerFailure == "raised"

\* The well-formed spans of a list up to its first malformed one
RECURSIVE WellFormedPrefix(_)
WellFormedPrefix(ss) ==
    IF Len(ss) = 0 \/ ~ss[1].has_entity \/ ~ss[1].has_word THEN << >>
    ELSE <<ss[1]>> \o WellFormedPrefix(Tail(ss))

\* extract_legal_entities is entered and calls chunk_text(text, chunk_size):
\* lines 90-91 and 52-54
extract_enter ==
    /\ pc = "entry"
    /\ call = "extract_legal_entities"
    /\ overlap' = DefaultOverlap
    /\ words' = split(text)
    /\ chunks' = << >>
    /\ start' = 0
    /\ entities' = EmptyDict
    /\ idx' = 0
    /\ pc' = "while"
    /\ UNCHANGED <<call, text, chunk_size, max_chunk_words, summarizer,
                   summaries, combined, round, input, outcomes, raw, result>>

\* One iteration of the loop over the chunks: lines 92-99.  The model follows
\* the documents for which the pipeline returns two spans at most, in one
\* chunk or in two.
extract_chunk ==
    /\ pc = "ner_for"
    /\ idx < Len(chunks)
    /\ \E o \in NerOutcomes(2 - Len(raw)) :
          LET a == AddSpans(entities, o.spans)
          IN  /\ entities' = a.entities
              /\ raw' = raw \o WellFormedPrefix(o.spans)
              /\ pc' = IF o.ok /\ a.ok THEN "ner_for" ELSE AfterNerFailure
    /\ idx' = idx + 1
    /\ UNCHANGED <<call, text, chunk_size, overlap, words, chunks, start,
                   max_chunk_words, summarizer, summaries, combined, round,
                   input, outcomes, result>>

\* lines 100-103
extract_return ==
    /\ pc = "ner_for"
    /\ idx = Len(chunks)
    /\ entities' = Clean(entities)
    /\ result' = Clean(entities)
    /\ pc' = "returned"
    /\ UNCHANGED <<call, text, chunk_size, overlap, words, chunks, start,
                   max_chunk_words, summarizer, summaries, combined, idx,
                   round, input, outcomes, raw>>

----------------------------------------------------------------------------
(* The calls the model follows *)

NoValue == << >>

InitChunk ==
    /\ call = "chunk_text"
    /\ \E n \in 0..MaxWords, layout \in Layouts : text = Document(n, layout)
    /\ chunk_size \in 1..MaxChunkSize
    /\ overlap \in 0..(MaxChunkSize + 1)
    /\ max_chunk_words = 0
    /\ summarizer = "none"

\* Word counts of the documents summarized with a given max_chunk_words:
\* the short ones and, where the stride is wide enough for a round to have
\* few chunks, those around the stride and around max_chunk_words
WordCounts(m) ==
    (0..MaxWords) \cup
    (IF m - DefaultOverlap > MaxWords
        THEN {(m - DefaultOverlap) + d : d \in {-1, 0, 1}} \cup {m + d : d \in {-1, 0, 1}}
        ELSE {})

InitSummarize ==
    /\ call = "summarize_large_text"
    /\ max_chunk_words \in {1, DefaultOverlap, DefaultOverlap + 1, DefaultMaxChunkWords}
    /\ \E n \in WordCounts(max_chunk_words), layout \in Layouts :
          text = Document(n, layout)
    /\ summarizer \in Summarizers
    /\ chunk_size = 0
    /\ overlap = 0

InitExtract ==
    /\ call = "extract_legal_entities"
    /\ chunk_size \in {DefaultOverlap, DefaultOverlap + 1, DefaultNerChunkSize}
    /\ \E n \in {0, 1, 2} : text = Document(n, "plain")
    /\ max_chunk_words = 0
    /\ summarizer = "none"
    /\ overlap = 0

Init ==
    /\ pc = "entry"
    /\ \/ InitChunk
       \/ InitSummarize
       \/ InitExtract
    /\ words = << >>
    /\ chunks = << >>
    /\ start = 0
    /\ summaries = << >>
    /\ combined = << >>
    /\ idx = 0
    /\ round = 0
    /\ input = text
    /\ outcomes = << >>
    /\ entities = EmptyDict
    /\ raw = << >>
    /\ result = NoValue

Next ==
    \/ chunk_text_enter
    \/ chunk_text_iterate
    \/ chunk_text_return
    \/ summarize_enter
    \/ summarize_chunk
    \/ summarize_join
    \/ summarize_recurse
    \/ summarize_return
    \/ extract_enter
    \/ extract_chunk
    \/ extract_return

Spec == Init /\ [][Next]_vars

----------------------------------------------------------------------------
(* The claims *)

\* chunk_text has returned its chunks to its caller
ChunkTextDone == pc \notin {"entry", "while"}

ValidConfig == chunk_size >= 1 /\ 0 <= overlap /\ overlap < chunk_size

Stride == chunk_size - overlap

SummarizeCall == call = "summarize_large_text"
ExtractCall == call = "extract_legal_entities"

\* C1: with overlap >= chunk_size, chunk_text fails with InvalidConfiguration
\* and never loops: it is never in its while loop with iterations behind it,
\* a start offset that has not advanced and the loop condition still true.
C1_RejectsNonPositiveStride ==
    (overlap >= chunk_size) =>
        ~(/\ pc = "while"
          /\ Len(chunks) = MaxIter
          /\ start <= 0
          /\ WhileCond(start, words))

\* C2: for a non-empty word sequence and a valid configuration, the k-th chunk
\* chunk_text returns (k from 0) is the words at positions
\* [k*stride, min(k*stride + chunk_size, n)), and every word position lies in
\* a chunk.
C2_ChunksAreStridedWindows ==
    (ChunkTextDone /\ ValidConfig /\ Len(words) >= 1) =>
        LET n == Len(words)
        IN  /\ \A k \in 0..(Len(chunks) - 1) :
                  /\ k * Stride < n
                  /\ split(chunks[k + 1]) =
                        SubSeq(words, k * Stride + 1, Min(k * Stride + chunk_size, n))
            /\ \A p \in 0..(n - 1) :
                  \E k \in 0..(Len(chunks) - 1) :
                      k * Stride <= p /\ p < Min(k * Stride + chunk_size, n)

\* C2, its case: a direct call has returned several overlapping chunks, the
\* last one shorter than chunk_size
C2_Witness ==
    /\ call = "chunk_text"
    /\ pc = "returned"
    /\ ValidConfig
    /\ overlap >= 1
    /\ Len(chunks) >= 3
    /\ Len(split(chunks[Len(chunks)])) < chunk_size

\* C3: for a valid configuration, chunk_text returns no chunk for a text
\* without words and exactly one chunk for a text of at least one word and
\* fewer words than chunk_size.
C3_ZeroOrOneChunk ==
    (ChunkTextDone /\ ValidConfig) =>
        /\ (Len(words) = 0) => (Len(chunks) = 0)
        /\ (1 <= Len(words) /\ Len(words) < chunk_size) => (Len(chunks) = 1)

\* C4: with the identity summarizer, a text of fewer than max_chunk_words
\* words is summarized in exactly one round, and the summary returned has the
\* words of the text.
C4_IdentityShortTextUnchanged ==
    (SummarizeCall /\ summarizer = "identity"
        /\ Len(split(input)) < max_chunk_words) =>
        /\ round <= 1
        /\ (pc = "returned") => (split(result) = split(input))

\* The summaries of the calls of this round that returned, in chunk order
RECURSIVE Survivors(_)
Survivors(os) ==
    IF Len(os) = 0 THEN << >>
    ELSE (IF os[1].ok THEN <<os[1].out>> ELSE << >>) \o Survivors(Tail(os))

AllRaised(os) == \A j \in 1..Len(os) : ~os[j].ok

\* C5: a summarizer call that raises is skipped and the round goes on: the
\* combined summary of a round is the space-joined summaries, in chunk
\* order, of the calls that returned; nothing is raised, and when every call
\* raised the summary returned is empty.
C5_FailedChunksAreSkipped ==
    SummarizeCall =>
        /\ pc # "raised"
        /\ (pc \in {"sl_if", "returned"}) =>
              /\ Len(outcomes) = Len(chunks)
              /\ combined = JoinStrs(Survivors(outcomes))
        /\ (pc = "returned" /\ AllRaised(outcomes)) => (result = << >>)

\* C5, its case: a round in which a call raised between two calls that
\* returned words has been combined and returned
C5_Witness ==
    /\ SummarizeCall
    /\ pc = "returned"
    /\ Len(outcomes) >= 3
    /\ outcomes[1].ok /\ ~outcomes[2].ok /\ outcomes[3].ok
    /\ Len(split(outcomes[1].out)) >= 1
    /\ Len(split(outcomes[3].out)) >= 1
    /\ result = JoinStrs(Survivors(outcomes))

\* A cap on the rounds that the model can tell from no cap
RoundCap == MaxRounds - 1

\* C6: the number of reduction rounds of summarize_large_text is bounded by a
\* fixed cap: at the cap, a combined summary that is still too long is
\* returned, and no further round starts.
C6_RoundsAreCapped == round <= RoundCap

\* The raw values, as the pipeline returned them, of the spans of a type
RawOf(t) == {raw[j].word : j \in {i \in 1..Len(raw) : raw[i].entity = t}}

\* The values of a type in the index returned
ValuesOf(t) == IF t \in DOMAIN result THEN result[t] ELSE {}

\* Two raw values differ only in leading and trailing characters of the
\* stripped set
DifferOnlyAtEnds(r1, r2) == r1 # r2 /\ Strip(r1, Junk) = Strip(r2, Junk)

\* A raw value that is empty or whitespace once its markers are removed
Blank(r) == Strip(RemoveMarkers(r), Whitespace) = << >>

\* C7, as stated: two raw values of a type that differ only in leading and
\* trailing whitespace or punctuation of the stripped set end up as exactly
\* one value in the set of the type.
C7_OneValuePerCore ==
    (ExtractCall /\ pc = "returned") =>
        \A t \in Types : \A r1, r2 \in RawOf(t) :
            (RawOf(t) = {r1, r2} /\ DifferOnlyAtEnds(r1, r2)) =>
                Cardinality(ValuesOf(t)) = 1

\* C7, amended: two such raw values end up as one value at most in the set of
\* the type: as exactly one, unless both are blank once their markers are
\* removed, and then as none.
C7_AtMostOneValuePerCore ==
    (ExtractCall /\ pc = "returned") =>
        \A t \in Types : \A r1, r2 \in RawOf(t) :
            (RawOf(t) = {r1, r2} /\ DifferOnlyAtEnds(r1, r2)) =>
                Cardinality(ValuesOf(t)) = (IF Blank(r1) /\ Blank(r2) THEN 0 ELSE 1)

\* C7, its case: "A." and "A", returned as ORG for two chunks, are the one
\* value "A" of ORG
C7_Witness ==
    /\ ExtractCall
    /\ pc = "returned"
    /\ Len(chunks) = 2
    /\ Len(raw) = 2
    /\ raw[1] = Span("ORG", <<"A", ".">>)
    /\ raw[2] = Span("ORG", <<"A">>)
    /\ result = [t \in {"ORG"} |-> {<<"A">>}]

\* C8: no set of the index returned by extract_legal_entities holds the empty
\* string.
C8_NoEmptyValue ==
    (ExtractCall /\ pc = "returned") =>
        \A t \in DOMAIN result : << >> \notin result[t]

\* C9: a failure of the NER call on a chunk, or a span without its type or
\* its value, never escapes extract_legal_entities.
C9_NothingEscapes == ExtractCall => pc # "raised"

\* C10: the summary summarize_large_text returns has max_chunk_words words
\* at most.
C10_SummaryWithinLimit ==
    (SummarizeCall /\ pc = "returned") => Len(split(result)) <= max_chunk_words

\* C10, its case: a combined summary that was too long went through a further
\* round, and the summary of that round was returned, as long as allowed
C10_Witness ==
    /\ SummarizeCall
    /\ pc = "returned"
    /\ round >= 2
    /\ max_chunk_words >= 1
    /\ Len(split(result)) = max_chunk_words
====
